---- MODULE Spec2Model ----
(***************************************************************************)
(* Snickers Chat backend (src/server.js): an Express application with a    *)
(* notification-dispatch handler, a token read handler, a token write      *)
(* handler, a version handler and a health handler.  The handlers share    *)
(* nothing but the Firestore "users" collection and the FCM delivery       *)
(* service.  A handler runs without interruption from one await to the     *)
(* next, so each action below is one such stretch: the resumption of the   *)
(* awaited call (its effect on the external service included) followed by  *)
(* all the code up to the next await or to the response.                   *)
(*                                                                         *)
(* JavaScript values: identifiers, names and tokens are strings, with      *)
(* Undefined for a field that is not there and Null for null.  A message   *)
(* is a record [defined, chars], its characters the UTF-16 code units.     *)
(* The payload's timestamps (new Date(), serverTimestamp()) are left out:  *)
(* no handler reads them.                                                  *)
(***************************************************************************)
EXTENDS Integers, Sequences, FiniteSets, TLC

VARIABLES
    store,    \* Firestore collection 'users': user id -> document
    outbox,   \* FCM: the messages the delivery service accepted, in order
    pc,       \* request -> where its handler stands
    kind,     \* request -> which route it came in on
    body,     \* request -> req.params and req.body
    local,    \* request -> the handler's local variables
    calls,    \* request -> the external calls it has invoked, in order
    results,  \* request -> how each finished call ended ("ok" or the error)
    res,      \* request -> the responses written to it, in order
    seen,     \* request -> what the store held when the request looked; the
              \* user's epoch at two points of the request (a token read: its
              \* arrival and its lookup; a dispatch: its lookup and its send)
    epoch     \* user id -> how many update() calls of the user's document the
              \* store has executed, and the request of the last one

vars == <<store, outbox, pc, kind, body, local, calls, results, res, seen, epoch>>

----------------------------------------------------------------------------
\* Bounds of the model

\* Number of HTTP requests in one behaviour of Spec.
NumReq == 2

\* Length of the longest message body a request carries.
MaxMsgLen == 52

Reqs == 1..NumReq

----------------------------------------------------------------------------
\* JavaScript values

Undefined == "<undefined>"
Null == "<null>"

Str(chars) == [defined |-> TRUE, chars |-> chars]
UndefinedMsg == [defined |-> FALSE, chars |-> << >>]

\* A string of n characters, no two neighbours alike.
Text(n) == Str([i \in 1..n |-> 97 + (i % 3)])

\* !v for a value that is a string or undefined
Falsy(v) == v = Undefined \/ v = ""

\* !message
MsgFalsy(m) == ~m.defined \/ Len(m.chars) = 0

----------------------------------------------------------------------------
\* Program constants

TruncLen == 50
Dot == 46
Ellipsis == <<Dot, Dot, Dot>>
\* "Kullan\u0131c\u0131" in the source; the dotless i is written i here.
Placeholder == "Kullanici"
Unknown == "Bilinmeyen"

----------------------------------------------------------------------------
\* The external services

UserIds == {"u1", "u2", "u3"}

NoDoc == [exists |-> FALSE, fcmToken |-> Undefined, username |-> Undefined,
          lastTokenUpdate |-> Undefined]

\* db.collection('users').doc(id).get(): the snapshot of the document.  An id
\* that names no document (the empty path cannot be read at all, and a request
\* with one never gets this far) gives a snapshot with exists = false.
DocGet(id) == IF id \in UserIds THEN store[id] ELSE NoDoc

\* Errors an external call may throw.
StoreErrors == {"UNAVAILABLE"}
SendErrors == {"registration-token-not-registered"}
NotFound == "NOT_FOUND: No document to update"

\* The receipt the delivery service gives for the next message it accepts:
\* FCM names each accepted message anew.
NextReceipt == Len(outbox) + 1

----------------------------------------------------------------------------
\* POST /api/send-notification: the code between the awaits

\* MissingRequired with the test of the message forgotten.
MissingRequiredNoMessage(b) == Falsy(b.receiverId) \/ Falsy(b.senderId)

\* if (!receiverId || !senderId || !message)
MissingRequired(b) ==
    Falsy(b.receiverId) \/ Falsy(b.senderId) \/ MsgFalsy(b.message)

\* res.status(400).json({ error: 'Missing required fields: ...' })
BadRequest ==
    <<[status |-> 400,
       error |-> "Missing required fields: receiverId, senderId, message"]>>

\* res.status(404).json({ error: 'User not found' })
UserNotFound == <<[status |-> 404, error |-> "User not found"]>>

\* TokenMissing testing for undefined alone.
TokenMissingStrict(fcmToken) == fcmToken = Undefined

\* if (!fcmToken)
TokenMissing(fcmToken) == Falsy(fcmToken)

\* res.status(404).json({ error: 'FCM token not found' })
TokenNotFound == <<[status |-> 404, error |-> "FCM token not found"]>>

\* if (!finalSenderName || finalSenderName === "Kullanici")
NeedsSenderLookup(senderName) == Falsy(senderName) \/ senderName = Placeholder

\* if (senderDoc.exists) finalSenderName = senderDoc.data().username || "Bilinmeyen"
SenderNameFromDoc(finalSenderName, senderDoc) ==
    IF senderDoc.exists
    THEN IF Falsy(senderDoc.username) THEN Unknown ELSE senderDoc.username
    ELSE finalSenderName

\* The inner catch: finalSenderName = "Bilinmeyen"
SenderNameOnError == Unknown

\* DisplayBody with >= for >.
DisplayBodyOffByOne(message) ==
    IF Len(message.chars) >= TruncLen
    THEN Str(SubSeq(message.chars, 1, TruncLen) \o Ellipsis)
    ELSE message

\* message.length > 50 ? message.substring(0, 50) + '...' : message
DisplayBody(message) ==
    IF Len(message.chars) > TruncLen
    THEN Str(SubSeq(message.chars, 1, TruncLen) \o Ellipsis)
    ELSE message

\* chatRoomId || ''
RoomOrEmpty(chatRoomId) == IF Falsy(chatRoomId) THEN "" ELSE chatRoomId

\* TargetToken reading the store again when the message is built.
TargetTokenReread(r) == DocGet(body[r].receiverId).fcmToken

\* token: fcmToken -- the token the handler read from the receiver's document
TargetToken(r) == local[r].fcmToken

AndroidConfig ==
    [priority |-> "high",
     notification |-> [channelId |-> "snickers_chat_channel", priority |-> "high",
                       defaultSound |-> TRUE, defaultVibrateTimings |-> TRUE]]

\* const notificationMessage = { notification, data, token, android }
NotificationMessage(finalSenderName, message, senderId, chatRoomId, fcmToken) ==
    [notification |-> [title |-> finalSenderName, body |-> DisplayBody(message)],
     data |-> [title |-> finalSenderName, message |-> message, senderId |-> senderId,
               senderName |-> finalSenderName, chatRoomId |-> RoomOrEmpty(chatRoomId)],
     token |-> fcmToken,
     android |-> AndroidConfig]

\* DispatchSuccess answering with a fixed id instead of the service's.
DispatchSuccessFixedId(response) ==
    <<[status |-> 200, success |-> TRUE, messageId |-> 1,
       message |-> "Notification sent successfully"]>>

\* res.json({ success: true, messageId: response, message: '...' })
DispatchSuccess(response) ==
    <<[status |-> 200, success |-> TRUE, messageId |-> response,
       message |-> "Notification sent successfully"]>>

\* DispatchCatch hiding the error's text.
DispatchCatchNoDetails(error) ==
    <<[status |-> 500, error |-> "Failed to send notification",
       details |-> "Internal error"]>>

\* catch (error) { res.status(500).json({ error: '...', details: error.message }) }
DispatchCatch(error) ==
    <<[status |-> 500, error |-> "Failed to send notification", details |-> error]>>

----------------------------------------------------------------------------
\* GET and POST /api/user/:userId/token, GET /api/app/version, GET /

\* res.json({ userId, fcmToken: fcmToken || null })
TokenReadSuccess(userId, userDoc) ==
    <<[status |-> 200, userId |-> userId,
       fcmToken |-> IF Falsy(userDoc.fcmToken) THEN Null ELSE userDoc.fcmToken]>>

\* TokenReadResponse treating a missing token as the dispatch handler does.
TokenReadResponseStrict(userId, userDoc) ==
    IF ~userDoc.exists THEN UserNotFound
    ELSE IF Falsy(userDoc.fcmToken) THEN TokenNotFound
    ELSE TokenReadSuccess(userId, userDoc)

\* The body of the read handler after its lookup returned.
TokenReadResponse(userId, userDoc) ==
    IF ~userDoc.exists THEN UserNotFound ELSE TokenReadSuccess(userId, userDoc)

TokenReadCatch(error) ==
    <<[status |-> 500, error |-> "Failed to get user token", details |-> error]>>

TokenRequired == <<[status |-> 400, error |-> "FCM token is required"]>>

\* DocUpdate setting the timestamp alone.
DocUpdateTimestampOnly(doc, fcmToken) ==
    [doc EXCEPT !.lastTokenUpdate = "serverTimestamp"]

\* update({ fcmToken: fcmToken, lastTokenUpdate: serverTimestamp() }) on a
\* document that exists: the two fields are set, the others kept.
DocUpdate(doc, fcmToken) ==
    [doc EXCEPT !.fcmToken = fcmToken, !.lastTokenUpdate = "serverTimestamp"]

TokenWriteSuccess ==
    <<[status |-> 200, success |-> TRUE, message |-> "FCM token updated successfully"]>>

\* TokenWriteCatch logging the error and writing no response.
TokenWriteCatchSilent(error) == << >>

TokenWriteCatch(error) ==
    <<[status |-> 500, error |-> "Failed to update user token", details |-> error]>>

VersionResponse ==
    <<[status |-> 200, success |-> TRUE, currentVersion |-> "1.0.0",
       latestVersion |-> [version |-> "1.0.2", versionCode |-> 3,
                          isForceUpdate |-> FALSE, minVersion |-> "1.0.0"]]>>

HealthResponse ==
    <<[status |-> 200,
       json |-> [message |-> "Snickers Chat Backend API", status |-> "running"]]>>

----------------------------------------------------------------------------
\* Requests

NoBody ==
    [receiverId |-> Undefined, senderId |-> Undefined, senderName |-> Undefined,
     message |-> UndefinedMsg, chatRoomId |-> Undefined,
     userId |-> Undefined, fcmToken |-> Undefined]

NoLocal == [fcmToken |-> Undefined, finalSenderName |-> Undefined]

NoSeen == [doc |-> NoDoc, writer |-> 0, since |-> 0, upto |-> 0]

\* Every body a dispatch request may carry: each field there or not, empty or
\* not, the message short of, at and past the truncation length.
IdInputs == {Undefined, "", "u1", "u2", "u3"}
NameInputs == {Undefined, "", Placeholder, "Veli"}
MsgLens == {0, 1, TruncLen, TruncLen + 1, MaxMsgLen}
MsgInputs == {UndefinedMsg} \cup {Text(n) : n \in MsgLens}
RoomInputs == {Undefined, "room1"}

AllBodies ==
    {[NoBody EXCEPT !.receiverId = rid, !.senderId = sid, !.senderName = sn,
                    !.message = m, !.chatRoomId = room] :
        rid \in IdInputs, sid \in IdInputs, sn \in NameInputs,
        m \in MsgInputs, room \in RoomInputs}

\* The bodies of the requests that run side by side in Spec: well-formed, to a
\* receiver with a token or without one, with the sender's name or without it.
ValidBodies ==
    {[NoBody EXCEPT !.receiverId = rid, !.senderId = "u1", !.senderName = sn,
                    !.message = Text(2), !.chatRoomId = "room1"] :
        rid \in {"u1", "u2"}, sn \in {Undefined, "Veli"}}

TokenInputs == {Undefined, "", "tokB"}

Invoke(r, call) == calls' = [calls EXCEPT ![r] = Append(@, call)]
Finish(r, outcome) == results' = [results EXCEPT ![r] = Append(@, outcome)]
Write(r, out) == res' = [res EXCEPT ![r] = @ \o out]
Goto(r, label) == pc' = [pc EXCEPT ![r] = label]

\* Requests are numbered in the order they arrive.
Arrives(r) == pc[r] = "idle" /\ (IF r = 1 THEN TRUE ELSE pc[r - 1] # "idle")

\* The collection as the handlers may find it: u1 with a token and a name, u2
\* with neither (its token field not there, or empty), u3 without a document.
Init ==
    /\ \E none \in {Undefined, ""} :
         store = [u \in UserIds |->
                  CASE u = "u1" -> [exists |-> TRUE, fcmToken |-> "tokA",
                                    username |-> "Ali", lastTokenUpdate |-> Undefined]
                    [] u = "u2" -> [exists |-> TRUE, fcmToken |-> none,
                                    username |-> Undefined, lastTokenUpdate |-> Undefined]
                    [] OTHER -> NoDoc]
    /\ outbox = << >>
    /\ pc = [r \in Reqs |-> "idle"]
    /\ kind = [r \in Reqs |-> "none"]
    /\ body = [r \in Reqs |-> NoBody]
    /\ local = [r \in Reqs |-> NoLocal]
    /\ calls = [r \in Reqs |-> << >>]
    /\ results = [r \in Reqs |-> << >>]
    /\ res = [r \in Reqs |-> << >>]
    /\ seen = [r \in Reqs |-> NoSeen]
    /\ epoch = [u \in UserIds |-> [n |-> 0, writer |-> 0]]

----------------------------------------------------------------------------
\* POST /api/send-notification

\* Lines 30-48: destructure, validate, ask the store for the receiver.
StartDispatch(r, b) ==
    /\ Arrives(r)
    /\ kind' = [kind EXCEPT ![r] = "dispatch"]
    /\ body' = [body EXCEPT ![r] = b]
    /\ IF MissingRequired(b)
       THEN /\ Write(r, BadRequest)
            /\ Goto(r, "done")
            /\ UNCHANGED calls
       ELSE /\ Invoke(r, [op |-> "get", key |-> b.receiverId])
            /\ Goto(r, "awaitReceiver")
            /\ UNCHANGED res
    /\ UNCHANGED <<store, outbox, local, results, seen, epoch>>

\* Lines 85-113: build the message and hand it to admin.messaging().send.
InvokeSend(r, finalSenderName, fcmToken) ==
    /\ Invoke(r, [op |-> "send",
                  message |-> NotificationMessage(finalSenderName, body[r].message,
                                  body[r].senderId, body[r].chatRoomId, fcmToken)])
    /\ Goto(r, "awaitSend")

\* Lines 48-80 (or -113): the receiver's document arrives, or the get throws.
ReceiverLookup(r) ==
    /\ pc[r] = "awaitReceiver"
    /\ \/ \E e \in StoreErrors :
            /\ Finish(r, e)
            /\ Write(r, DispatchCatch(e))
            /\ Goto(r, "done")
            /\ UNCHANGED <<local, calls, seen>>
       \/ LET userDoc == DocGet(body[r].receiverId) IN
            /\ Finish(r, "ok")
            /\ seen' = [seen EXCEPT ![r].doc = userDoc,
                                    ![r].since = epoch[body[r].receiverId].n]
            /\ IF ~userDoc.exists
               THEN /\ Write(r, UserNotFound)
                    /\ Goto(r, "done")
                    /\ UNCHANGED <<local, calls>>
               ELSE IF TokenMissing(userDoc.fcmToken)
               THEN /\ Write(r, TokenNotFound)
                    /\ Goto(r, "done")
                    /\ UNCHANGED <<local, calls>>
               ELSE /\ local' = [local EXCEPT ![r] =
                                   [fcmToken |-> userDoc.fcmToken,
                                    finalSenderName |-> body[r].senderName]]
                    /\ IF NeedsSenderLookup(body[r].senderName)
                       THEN /\ Invoke(r, [op |-> "get", key |-> body[r].senderId])
                            /\ Goto(r, "awaitSender")
                       ELSE InvokeSend(r, body[r].senderName, userDoc.fcmToken)
                    /\ UNCHANGED res
    /\ UNCHANGED <<store, outbox, kind, body, epoch>>

\* Lines 72-113: the sender's document arrives, or the get throws into the
\* inner catch; either way the message is built and sent.
SenderLookup(r) ==
    /\ pc[r] = "awaitSender"
    /\ \/ LET name == SenderNameFromDoc(local[r].finalSenderName,
                                        DocGet(body[r].senderId)) IN
            /\ Finish(r, "ok")
            /\ local' = [local EXCEPT ![r].finalSenderName = name]
            /\ InvokeSend(r, name, TargetToken(r))
       \/ \E e \in StoreErrors :
            /\ Finish(r, e)
            /\ local' = [local EXCEPT ![r].finalSenderName = SenderNameOnError]
            /\ InvokeSend(r, SenderNameOnError, TargetToken(r))
    /\ UNCHANGED <<store, outbox, kind, body, res, seen, epoch>>

\* Lines 113-129: the delivery service answers with a message id, or throws.
Send(r) ==
    /\ pc[r] = "awaitSend"
    /\ \/ /\ outbox' = Append(outbox, calls[r][Len(calls[r])].message)
          /\ Finish(r, "ok")
          /\ Write(r, DispatchSuccess(NextReceipt))
       \/ \E e \in SendErrors :
            /\ Finish(r, e)
            /\ Write(r, DispatchCatch(e))
            /\ UNCHANGED outbox
    /\ Goto(r, "done")
    /\ seen' = [seen EXCEPT ![r].upto = epoch[body[r].receiverId].n]
    /\ UNCHANGED <<store, kind, body, local, calls, epoch>>

----------------------------------------------------------------------------
\* GET /api/user/:userId/token

\* Lines 134-138: ask the store for the user.
StartTokenRead(r, userId) ==
    /\ Arrives(r)
    /\ kind' = [kind EXCEPT ![r] = "read"]
    /\ body' = [body EXCEPT ![r].userId = userId]
    /\ Invoke(r, [op |-> "get", key |-> userId])
    /\ Goto(r, "awaitGet")
    /\ seen' = [seen EXCEPT ![r].writer = epoch[userId].writer,
                            ![r].since = epoch[userId].n]
    /\ UNCHANGED <<store, outbox, local, results, res, epoch>>

\* Lines 138-157: the document arrives, or the get throws.
TokenGet(r) ==
    /\ pc[r] = "awaitGet"
    /\ \/ \E e \in StoreErrors :
            /\ Finish(r, e)
            /\ Write(r, TokenReadCatch(e))
            /\ UNCHANGED seen
       \/ LET userDoc == DocGet(body[r].userId) IN
            /\ Finish(r, "ok")
            /\ seen' = [seen EXCEPT ![r].doc = userDoc,
                                    ![r].upto = epoch[body[r].userId].n]
            /\ Write(r, TokenReadResponse(body[r].userId, userDoc))
    /\ Goto(r, "done")
    /\ UNCHANGED <<store, outbox, kind, body, local, calls, epoch>>

----------------------------------------------------------------------------
\* POST /api/user/:userId/token

\* Lines 162-171: validate, ask the store to update the user's document.
StartTokenWrite(r, userId, fcmToken) ==
    /\ Arrives(r)
    /\ kind' = [kind EXCEPT ![r] = "write"]
    /\ body' = [body EXCEPT ![r].userId = userId, ![r].fcmToken = fcmToken]
    /\ IF Falsy(fcmToken)
       THEN /\ Write(r, TokenRequired)
            /\ Goto(r, "done")
            /\ UNCHANGED calls
       ELSE /\ Invoke(r, [op |-> "update", key |-> userId])
            /\ Goto(r, "awaitUpdate")
            /\ UNCHANGED res
    /\ UNCHANGED <<store, outbox, local, results, seen, epoch>>

\* Lines 171-187: the store has updated the document, or update() throws:
\* the call failed on its way, or there is no document to update.
TokenUpdate(r) ==
    /\ pc[r] = "awaitUpdate"
    /\ LET userId == body[r].userId IN
         \/ \E e \in StoreErrors :
              /\ Finish(r, e)
              /\ Write(r, TokenWriteCatch(e))
              /\ UNCHANGED <<store, epoch>>
         \/ /\ ~DocGet(userId).exists
            /\ Finish(r, NotFound)
            /\ Write(r, TokenWriteCatch(NotFound))
            /\ epoch' = [epoch EXCEPT ![userId] = [n |-> @.n + 1, writer |-> r]]
            /\ UNCHANGED store
         \/ /\ DocGet(userId).exists
            /\ Finish(r, "ok")
            /\ store' = [store EXCEPT ![userId] = DocUpdate(@, body[r].fcmToken)]
            /\ Write(r, TokenWriteSuccess)
            /\ epoch' = [epoch EXCEPT ![userId] = [n |-> @.n + 1, writer |-> r]]
    /\ Goto(r, "done")
    /\ UNCHANGED <<outbox, kind, body, local, calls, seen>>

----------------------------------------------------------------------------
\* GET /api/app/version and GET /

Version(r) ==
    /\ Arrives(r)
    /\ kind' = [kind EXCEPT ![r] = "version"]
    /\ Write(r, VersionResponse)
    /\ Goto(r, "done")
    /\ UNCHANGED <<store, outbox, body, local, calls, results, seen, epoch>>

Health(r) ==
    /\ Arrives(r)
    /\ kind' = [kind EXCEPT ![r] = "health"]
    /\ Write(r, HealthResponse)
    /\ Goto(r, "done")
    /\ UNCHANGED <<store, outbox, body, local, calls, results, seen, epoch>>

----------------------------------------------------------------------------
\* Specifications

\* An awaited call of request r returns or throws, and the handler runs on.
Resume(r) ==
    \/ ReceiverLookup(r)
    \/ SenderLookup(r)
    \/ Send(r)
    \/ TokenGet(r)
    \/ TokenUpdate(r)

\* NumReq requests of any route, side by side.
Next ==
    \E r \in Reqs :
        \/ \E b \in ValidBodies : StartDispatch(r, b)
        \/ \E u \in UserIds : StartTokenRead(r, u)
        \/ \E u \in {"u1", "u3"}, t \in TokenInputs : StartTokenWrite(r, u, t)
        \/ Version(r)
        \/ Health(r)
        \/ Resume(r)

Spec == Init /\ [][Next]_vars

\* The same, every call that is awaited returning or throwing in the end.
LiveSpec == Spec /\ \A r \in Reqs : WF_vars(Resume(r))

\* One dispatch request with any body, beside one request to another route.
NextInputs ==
    \/ \E b \in AllBodies : StartDispatch(1, b)
    \/ \E r \in Reqs \cap {2} :
        \/ \E u \in {"u1"} : StartTokenRead(r, u)
        \/ \E u \in {"u1"}, t \in {"", "tokB"} : StartTokenWrite(r, u, t)
        \/ Version(r)
        \/ Health(r)
    \/ \E r \in Reqs \cap {1, 2} : Resume(r)

SpecInputs == Init /\ [][NextInputs]_vars

----------------------------------------------------------------------------
\* Properties

Dispatches == {r \in Reqs : kind[r] = "dispatch"}
Reads == {r \in Reqs : kind[r] = "read"}
Writes == {r \in Reqs : kind[r] = "write"}

SendCalls(r) == {i \in DOMAIN calls[r] : calls[r][i].op = "send"}

\* Call number i of request r has ended, and it threw.
Threw(r, i) == i \in DOMAIN results[r] /\ results[r][i] # "ok"

\* A string that is there and not empty.
Given(v) == v # Undefined /\ v # ""

\* The receiver lookup of dispatch request r has returned a document snapshot.
Looked(r) == Len(results[r]) >= 1 /\ results[r][1] = "ok"

\* C1: a dispatch request with receiverId, senderId or message missing or
\* empty is answered 400, once, and invokes no external call: no get of the
\* receiver or the sender, no send.
C1_MissingFieldRejected ==
    \A r \in Dispatches :
        (\/ ~Given(body[r].receiverId)
         \/ ~Given(body[r].senderId)
         \/ ~body[r].message.defined
         \/ body[r].message.chars = << >>)
        => /\ Len(res[r]) = 1
           /\ res[r][1].status = 400
           /\ calls[r] = << >>
           /\ results[r] = << >>

\* A request with both ids but an empty message has been answered 400.
C1_Witness ==
    \E r \in Dispatches :
        /\ body[r].receiverId = "u1"
        /\ body[r].senderId = "u2"
        /\ body[r].message = Text(0)
        /\ pc[r] = "done"
        /\ res[r][1].status = 400

\* C2: a dispatch request invokes send only after its receiver lookup gave a
\* document that exists with a token that is not empty; with no document the
\* answer is 404, with a document without a token (absent or empty) it is a
\* 4xx, and in both cases the request never invokes send.
C2_SendOnlyWithToken ==
    \A r \in Dispatches :
        /\ SendCalls(r) # {}
            => Looked(r) /\ seen[r].doc.exists /\ Given(seen[r].doc.fcmToken)
        /\ Looked(r) /\ ~seen[r].doc.exists
            => res[r] = <<[status |-> 404, error |-> "User not found"]>>
               /\ pc[r] = "done" /\ SendCalls(r) = {}
        /\ Looked(r) /\ seen[r].doc.exists /\ ~Given(seen[r].doc.fcmToken)
            => Len(res[r]) = 1
               /\ res[r][1].status >= 400 /\ res[r][1].status <= 499
               /\ pc[r] = "done" /\ SendCalls(r) = {}

\* A receiver whose document holds an empty token: the request ended 404
\* without a send.
C2_Witness ==
    \E r \in Dispatches :
        /\ Looked(r)
        /\ seen[r].doc.exists
        /\ seen[r].doc.fcmToken = ""
        /\ res[r][1].status = 404
        /\ SendCalls(r) = {}

\* C3: in every message handed to send, notification.body is the input message
\* when that has at most 50 characters, and its first 50 characters followed by
\* "..." when it has more, so never more than 53 characters; data.message is
\* the input message, whole.
C3_BodyTruncated ==
    \A r \in Dispatches : \A i \in SendCalls(r) :
        LET m == body[r].message.chars
            out == calls[r][i].message
        IN /\ out.notification.body.defined
           /\ Len(m) <= 50 => out.notification.body.chars = m
           /\ Len(m) > 50 =>
                out.notification.body.chars =
                    [j \in 1..53 |-> IF j <= 50 THEN m[j] ELSE 46]
           /\ Len(out.notification.body.chars) <= 53
           /\ out.data.message = body[r].message

\* A message of more than 50 characters went to send, cut.
C3_Witness ==
    \E r \in Dispatches : \E i \in SendCalls(r) :
        /\ Len(body[r].message.chars) > 50
        /\ Len(calls[r][i].message.notification.body.chars) = 53

\* The read request g looked at the store after write request w, with a token
\* that is not empty, had been executed by the store as the last update of the
\* same user before g arrived; no update of that user came between g's arrival
\* and its lookup; neither request's store call failed on its way.
ReadFollowsWrite(g, w) ==
    /\ g \in Reads
    /\ pc[g] = "done"
    /\ results[g] = <<"ok">>
    /\ w = seen[g].writer
    /\ w \in Writes
    /\ seen[g].since = seen[g].upto
    /\ Given(body[w].fcmToken)

\* C4 as claimed: for any user id, a token written and then read, no other
\* write of that user between, reads as written.
C4_RoundTripAnyUser ==
    \A g \in Reqs : \A w \in Reqs :
        ReadFollowsWrite(g, w)
        => res[g] = <<[status |-> 200, userId |-> body[g].userId,
                       fcmToken |-> body[w].fcmToken]>>

\* C4, amended: the same for the user ids that have a document; for a user id
\* without one the write is answered 500 and the read 404.
C4_RoundTripExistingUser ==
    \A g \in Reqs : \A w \in Reqs :
        ReadFollowsWrite(g, w)
        => IF store[body[g].userId].exists
           THEN /\ res[w][1].status = 200
                /\ res[g] = <<[status |-> 200, userId |-> body[g].userId,
                               fcmToken |-> body[w].fcmToken]>>
           ELSE /\ res[w][1].status = 500
                /\ res[g][1].status = 404

\* tokB written to u1, whose token was tokA, and read back.
C4_Witness ==
    \E g \in Reqs : \E w \in Reqs :
        /\ ReadFollowsWrite(g, w)
        /\ body[g].userId = "u1"
        /\ body[w].fcmToken = "tokB"
        /\ res[g][1].fcmToken = "tokB"

\* C5: a token read whose lookup found a document without a token is answered
\* 200 with {userId, fcmToken: null}; a token read is answered 404 only if its
\* lookup found no document.
C5_ReadWithoutToken ==
    \A r \in Reads :
        /\ results[r] = <<"ok">> /\ seen[r].doc.exists /\ ~Given(seen[r].doc.fcmToken)
            => res[r] = <<[status |-> 200, userId |-> body[r].userId,
                           fcmToken |-> Null]>>
        /\ \A i \in DOMAIN res[r] :
            res[r][i].status = 404 => results[r] = <<"ok">> /\ ~seen[r].doc.exists

\* u2, which has a document and no token, has been read.
C5_Witness ==
    \E r \in Reads :
        /\ body[r].userId = "u2"
        /\ Len(res[r]) = 1
        /\ res[r][1].status = 200
        /\ res[r][1].fcmToken = Null

\* Dispatch request r is over, its receiver had a token and the delivery
\* service accepted its message.
Delivered(r) ==
    /\ r \in Dispatches
    /\ pc[r] = "done"
    /\ Looked(r)
    /\ seen[r].doc.exists
    /\ Given(seen[r].doc.fcmToken)
    /\ results[r][Len(results[r])] = "ok"

\* C6: dispatch requests with the same input are not told apart: each one the
\* delivery service accepts invoked send once and is answered 200 with the id
\* the service gave its own message, and two of them have two ids and two
\* messages in the service's hands.
C6_NoDedup ==
    \A r \in Reqs :
        Delivered(r)
        => /\ Cardinality(SendCalls(r)) = 1
           /\ Len(res[r]) = 1
           /\ res[r][1].status = 200
           /\ res[r][1].messageId \in DOMAIN outbox
           /\ \A i \in SendCalls(r) : outbox[res[r][1].messageId] = calls[r][i].message
           /\ \A q \in Reqs \ {r} :
                Delivered(q) /\ body[q] = body[r]
                => res[q][1].messageId # res[r][1].messageId

\* Two requests with the same body, both answered 200.
C6_Witness ==
    \E r \in Reqs : \E q \in Reqs \ {r} :
        /\ Delivered(r)
        /\ Delivered(q)
        /\ body[q] = body[r]
        /\ res[q][1].status = 200
        /\ res[r][1].status = 200
        /\ Len(outbox) >= 2

\* C7: the title handed to send is the caller's senderName when that is there
\* and not the placeholder; otherwise it is the username of the sender's
\* document, and "Bilinmeyen" when that lookup failed or found no username.
\* So it is never undefined, empty or the placeholder.
C7_TitleResolved ==
    \A r \in Dispatches : \A i \in SendCalls(r) :
        LET title == calls[r][i].message.notification.title
            senderDoc == DocGet(body[r].senderId)
        IN /\ Given(body[r].senderName) /\ body[r].senderName # Placeholder
                => title = body[r].senderName
           /\ ~(Given(body[r].senderName) /\ body[r].senderName # Placeholder)
                => title = (IF ~Threw(r, 2) /\ senderDoc.exists
                                /\ Given(senderDoc.username)
                            THEN senderDoc.username
                            ELSE Unknown)
           /\ Given(title)
           /\ title # Placeholder

\* C8: when send throws, the request is answered 500, once, with the error's
\* text in details, and send was invoked once.
C8_SendFailure ==
    \A r \in Dispatches : \A i \in SendCalls(r) :
        Threw(r, i)
        => /\ res[r] = <<[status |-> 500, error |-> "Failed to send notification",
                          details |-> results[r][i]]>>
           /\ pc[r] = "done"
           /\ Cardinality(SendCalls(r)) = 1
           /\ Len(calls[r]) = i

\* A send has thrown.
C8_Witness ==
    \E r \in Dispatches : \E i \in SendCalls(r) :
        /\ Threw(r, i)
        /\ results[r][i] \in SendErrors
        /\ res[r][1].status = 500

\* Call number i of request r is the dispatch handler's lookup of the sender.
IsSenderLookup(r, i) == kind[r] = "dispatch" /\ i = 2 /\ calls[r][i].op = "get"

\* Request r has been answered once, and for each of its calls among `faults`
\* that threw, with a 500 that carries the error's text.
Rendered(r, faults) ==
    /\ pc[r] = "done"
    /\ Len(res[r]) = 1
    /\ \A i \in faults :
        Threw(r, i) => res[r][1].status = 500 /\ res[r][1].details = results[r][i]

\* C9 as claimed, for the requests that are over: any fault of an external
\* call has been rendered as a JSON error response.
C9_EveryFaultRendered ==
    \A r \in Reqs : pc[r] = "done" => Rendered(r, DOMAIN results[r])

\* C9, amended: no request is ever answered twice, and every request that has
\* arrived is in the end answered once, a fault of an external call as a JSON
\* error, but for a fault of the sender lookup, which the dispatch handler
\* catches inside and answers with the title "Bilinmeyen".
C9_AlwaysAnswered ==
    /\ [](\A r \in Reqs : Len(res[r]) <= 1)
    /\ \A r \in Reqs :
        (pc[r] # "idle")
            ~> Rendered(r, {i \in DOMAIN results[r] : ~IsSenderLookup(r, i)})

\* A token write whose update threw has been answered 500.
C9_Witness ==
    \E r \in Writes :
        /\ Threw(r, 1)
        /\ Rendered(r, {1})
        /\ res[r][1].status = 500

\* C10: the token in the message a dispatch request hands to send is the token
\* the receiver's document held when the request looked it up.
C10_TokenFromOwnLookup ==
    \A r \in Dispatches : \A i \in SendCalls(r) :
        /\ Looked(r)
        /\ calls[r][i].message.token = seen[r].doc.fcmToken

\* The delivery service has accepted a message with the token of the lookup,
\* a write having put another token in the receiver's document between the
\* lookup and the send.
C10_Witness ==
    \E r \in Dispatches : \E i \in SendCalls(r) :
        /\ pc[r] = "done"
        /\ seen[r].since < seen[r].upto
        /\ calls[r][i].message.token = "tokA"
        /\ store[body[r].receiverId].fcmToken = "tokB"
        /\ res[r][1].status = 200

====
